---- MODULE Spec2Model ----
(***************************************************************************)
(* Large-response handling of the IOP ticketing MCP server                 *)
(* (servers/mcp-iop-ticketing-server/src/large-response-handler.ts and the *)
(* tool handlers that call it).                                            *)
(*                                                                         *)
(* JSON values are tagged records:                                         *)
(*   [t |-> "null"]   [t |-> "bool", b]   [t |-> "num", n]                 *)
(*   [t |-> "str", s, pad, w]   the text s followed by pad filler          *)
(*                              characters, each one UTF-16 code unit and  *)
(*                              w UTF-8 bytes (w = 1: ASCII, w = 2: 'é')   *)
(*   [t |-> "arr", items]       a sequence of values                       *)
(*   [t |-> "obj", props]       a sequence of <<key, value>> in insertion  *)
(*                              order, keys distinct                       *)
(* Strings hold no character that JSON.stringify escapes; numbers are      *)
(* integers.                                                               *)
(***************************************************************************)
EXTENDS Integers, Sequences, FiniteSets, TLC

JNull == [t |-> "null"]
JBool(b) == [t |-> "bool", b |-> b]
JNum(n) == [t |-> "num", n |-> n]
JPad(s, n, w) == [t |-> "str", s |-> s, pad |-> n, w |-> w]
JStr(s) == JPad(s, 0, 1)
JArr(items) == [t |-> "arr", items |-> items]
JObj(props) == [t |-> "obj", props |-> props]

\* values a navigation can reach that JSON cannot express
JSUndefined == [t |-> "undefined"]
JSFunction == [t |-> "function"]

IsArray(v) == v.t = "arr"

Digit(d) == CASE d = 0 -> "0" [] d = 1 -> "1" [] d = 2 -> "2" [] d = 3 -> "3" [] d = 4 -> "4" [] d = 5 -> "5" [] d = 6 -> "6" [] d = 7 -> "7" [] d = 8 -> "8" [] OTHER -> "9"

RECURSIVE Decimal(_)
Decimal(n) == IF n < 10 THEN Digit(n) ELSE Decimal(n \div 10) \o Digit(n % 10)

NumberToString(n) == IF n < 0 THEN "-" \o Decimal(0 - n) ELSE Decimal(n)

\* typeof v
TypeOf(v) ==
  CASE v.t \in {"null", "arr", "obj"} -> "object"
    [] v.t = "bool" -> "boolean"
    [] v.t = "num" -> "number"
    [] v.t = "str" -> "string"
    [] OTHER -> v.t

\* !v
Falsy(v) ==
  \/ v.t \in {"null", "undefined"}
  \/ v.t = "bool" /\ ~v.b
  \/ v.t = "num" /\ v.n = 0
  \/ v.t = "str" /\ v.s = "" /\ v.pad = 0

\* a === b: primitives by value, objects and arrays by reference, and no
\* element of a parsed file is the same object as a caller's argument
StrictEquals(a, b) == a.t \in {"null", "bool", "num", "str", "undefined"} /\ a = b

\* Object.keys(v) of an object or an array (the indices as strings)
ObjectKeys(v) ==
  CASE v.t = "obj" -> [i \in 1..Len(v.props) |-> v.props[i][1]]
    [] v.t = "arr" -> [i \in 1..Len(v.items) |-> Decimal(i - 1)]
    [] OTHER -> <<>>

\* names every object, and every array, inherits from its prototype (a few of them)
ObjectPrototypeKeys == {"constructor", "toString", "valueOf", "hasOwnProperty", "__proto__"}
ArrayPrototypeKeys == {"map", "filter", "slice"} \union ObjectPrototypeKeys

HasOwn(v, k) ==
  CASE v.t = "obj" -> \E i \in 1..Len(v.props) : v.props[i][1] = k
    [] v.t = "arr" -> k = "length" \/ \E i \in 1..Len(v.items) : Decimal(i - 1) = k
    [] OTHER -> FALSE

\* k in v, for v an object or an array
In(k, v) ==
  \/ HasOwn(v, k)
  \/ v.t = "obj" /\ k \in ObjectPrototypeKeys
  \/ v.t = "arr" /\ k \in ArrayPrototypeKeys

\* v[k]: an own property, an inherited method, or the prototype itself, which
\* JSON.stringify writes as {} (Object.prototype) or [] (Array.prototype)
Get(v, k) ==
  CASE v.t = "obj" /\ HasOwn(v, k) -> v.props[CHOOSE i \in 1..Len(v.props) : v.props[i][1] = k][2]
    [] v.t = "arr" /\ k = "length" -> JNum(Len(v.items))
    [] v.t = "arr" /\ HasOwn(v, k) -> v.items[CHOOSE i \in 1..Len(v.items) : Decimal(i - 1) = k]
    [] In(k, v) /\ k = "__proto__" -> IF v.t = "obj" THEN JObj(<<>>) ELSE JArr(<<>>)
    [] In(k, v) -> JSFunction
    [] OTHER -> JSUndefined

Min(a, b) == IF a < b THEN a ELSE b

\* seq.slice(from, to) for 0 <= from
Slice(seq, from, to) == SubSeq(seq, from + 1, Min(to, Len(seq)))

(***************************************************************************)
(* JSON.stringify: the text as a sequence of tokens.  A punctuation token  *)
(* is one character; a literal, a number and a quoted string are one token *)
(* each, a number token holding the number its digits denote.  The texts   *)
(* exportResponse writes also hold white space ("w", n characters) and raw *)
(* unquoted text ("r").                                                    *)
(***************************************************************************)
Punct(c) == [k |-> "p", c |-> c]
Lit(c) == [k |-> "l", c |-> c]
NumTok(n) == [k |-> "n", n |-> n]
StrTok(s, n, w) == [k |-> "s", s |-> s, pad |-> n, w |-> w]

RECURSIVE Stringify(_), StringifyItems(_, _), StringifyProps(_, _)
Stringify(v) ==
  CASE v.t = "null" -> <<Lit("null")>>
    [] v.t = "bool" -> <<Lit(IF v.b THEN "true" ELSE "false")>>
    [] v.t = "num" -> <<NumTok(v.n)>>
    [] v.t = "str" -> <<StrTok(v.s, v.pad, v.w)>>
    [] v.t = "arr" -> <<Punct("[")>> \o StringifyItems(v.items, 1) \o <<Punct("]")>>
    [] v.t = "obj" -> <<Punct("{")>> \o StringifyProps(v.props, 1) \o <<Punct("}")>>

StringifyItems(items, i) ==
  IF i > Len(items) THEN <<>>
  ELSE (IF i > 1 THEN <<Punct(",")>> ELSE <<>>) \o Stringify(items[i]) \o StringifyItems(items, i + 1)

StringifyProps(props, i) ==
  IF i > Len(props) THEN <<>>
  ELSE (IF i > 1 THEN <<Punct(",")>> ELSE <<>>)
       \o <<StrTok(props[i][1], 0, 1), Punct(":")>> \o Stringify(props[i][2])
       \o StringifyProps(props, i + 1)

\* number of UTF-16 code units of a token (String.prototype.length)
TokLength(tok) ==
  CASE tok.k = "p" -> 1
    [] tok.k = "l" -> Len(tok.c)
    [] tok.k = "n" -> Len(NumberToString(tok.n))
    [] tok.k = "s" -> 2 + Len(tok.s) + tok.pad
    [] tok.k = "w" -> tok.n
    [] tok.k = "r" -> Len(tok.s)

\* number of bytes of a token in UTF-8, the encoding of the file and of the wire
TokBytes(tok) ==
  CASE tok.k = "p" -> 1
    [] tok.k = "l" -> Len(tok.c)
    [] tok.k = "n" -> Len(NumberToString(tok.n))
    [] tok.k = "s" -> 2 + Len(tok.s) + tok.pad * tok.w
    [] tok.k = "w" -> tok.n
    [] tok.k = "r" -> Len(tok.s)

RECURSIVE StringLength(_)
StringLength(text) == IF text = <<>> THEN 0 ELSE TokLength(Head(text)) + StringLength(Tail(text))

RECURSIVE ByteLength(_)
ByteLength(text) == IF text = <<>> THEN 0 ELSE TokBytes(Head(text)) + ByteLength(Tail(text))

(***************************************************************************)
(* JSON.parse: recursive descent over the tokens.  ParseValue yields       *)
(* [ok, v, next]: the value read from position i and the position after    *)
(* it, or ok = FALSE (a SyntaxError).                                      *)
(***************************************************************************)
ParseFail == [ok |-> FALSE]

RECURSIVE ParseValue(_, _), ParseItems(_, _, _), ParseProps(_, _, _)
ParseValue(text, i) ==
  IF i > Len(text) THEN ParseFail
  ELSE LET tok == text[i] IN
    CASE tok.k = "l" -> [ok |-> TRUE, next |-> i + 1,
                         v |-> IF tok.c = "null" THEN JNull ELSE JBool(tok.c = "true")]
      [] tok.k = "n" -> [ok |-> TRUE, next |-> i + 1, v |-> JNum(tok.n)]
      [] tok.k = "s" -> [ok |-> TRUE, next |-> i + 1, v |-> JPad(tok.s, tok.pad, tok.w)]
      [] tok.k = "p" /\ tok.c = "[" ->
           IF i + 1 <= Len(text) /\ text[i + 1] = Punct("]")
           THEN [ok |-> TRUE, next |-> i + 2, v |-> JArr(<<>>)]
           ELSE ParseItems(text, i + 1, <<>>)
      [] tok.k = "p" /\ tok.c = "{" ->
           IF i + 1 <= Len(text) /\ text[i + 1] = Punct("}")
           THEN [ok |-> TRUE, next |-> i + 2, v |-> JObj(<<>>)]
           ELSE ParseProps(text, i + 1, <<>>)
      [] OTHER -> ParseFail

\* the items of an array from position i on, acc the items read so far
ParseItems(text, i, acc) ==
  LET r == ParseValue(text, i) IN
    IF ~r.ok \/ r.next > Len(text) THEN ParseFail
    ELSE IF text[r.next] = Punct(",") THEN ParseItems(text, r.next + 1, Append(acc, r.v))
    ELSE IF text[r.next] = Punct("]")
         THEN [ok |-> TRUE, next |-> r.next + 1, v |-> JArr(Append(acc, r.v))]
    ELSE ParseFail

\* the properties of an object from position i on, acc those read so far
ParseProps(text, i, acc) ==
  IF i + 1 > Len(text) \/ text[i].k # "s" \/ text[i + 1] # Punct(":") THEN ParseFail
  ELSE LET r == ParseValue(text, i + 2) IN
    IF ~r.ok \/ r.next > Len(text) THEN ParseFail
    ELSE IF text[r.next] = Punct(",")
         THEN ParseProps(text, r.next + 1, Append(acc, <<text[i].s, r.v>>))
    ELSE IF text[r.next] = Punct("}")
         THEN [ok |-> TRUE, next |-> r.next + 1, v |-> JObj(Append(acc, <<text[i].s, r.v>>))]
    ELSE ParseFail

JsonParse(text) ==
  LET r == ParseValue(text, 1) IN
    IF r.ok /\ r.next = Len(text) + 1 THEN r ELSE ParseFail

(***************************************************************************)
(* The handler's constants, its errors and the outcome of a call.          *)
(* An outcome is [ok |-> TRUE, v |-> value] (the promise resolved) or      *)
(* [ok |-> FALSE, err |-> error] (it rejected); an error is a record       *)
(* holding its kind and the values its message interpolates.               *)
(***************************************************************************)
MAX_RESPONSE_SIZE == 100000
ONE_HOUR == 60 * 60 * 1000

Return(v) == [ok |-> TRUE, v |-> v]
Throw(err) == [ok |-> FALSE, err |-> err]

\* TypeError raised by the runtime, e.g. Object.keys(null), undefined.length
TypeError(what) == [e |-> "TypeError", what |-> what]
\* SyntaxError of JSON.parse
SyntaxError == [e |-> "SyntaxError"]
\* a rejected fs call: code is ENOENT, ENOSPC, ...
FsError(code, path) == [e |-> "FsError", code |-> code, path |-> path]

\* (size / 1024 / 1024).toFixed(2)
ToFixed2(size) ==
  LET h == (size * 200 + 1048576) \div 2097152 IN
    Decimal(h \div 100) \o "." \o Digit((h \div 10) % 10) \o Digit(h % 10)

\* createSummary(data): the summary object, or the TypeError of Object.keys(null)
createSummary(data) ==
  IF IsArray(data) THEN
    LET base == << <<"totalItems", JNum(Len(data.items))>>,
                   <<"firstItems", JArr(Slice(data.items, 0, 3))>>,
                   <<"structure", JStr("array")>> >>
    IN IF Len(data.items) > 0 /\ TypeOf(data.items[1]) = "object"
       THEN IF data.items[1].t = "null"
            THEN Throw(TypeError("Cannot convert undefined or null to object"))
            ELSE Return(JObj(Append(base,
                   <<"itemKeys", JArr([i \in 1..Min(10, Len(ObjectKeys(data.items[1]))) |->
                                          JStr(ObjectKeys(data.items[1])[i])])>>)))
       ELSE Return(JObj(base))
  ELSE IF TypeOf(data) = "object" /\ data.t # "null" THEN
    LET base == << <<"structure", JStr("object")>>,
                   <<"keys", JArr([i \in 1..Min(20, Len(ObjectKeys(data))) |->
                                      JStr(ObjectKeys(data)[i])])>> >>
    IN IF ~Falsy(Get(data, "data")) /\ IsArray(Get(data, "data"))
       THEN Return(JObj(base \o << <<"dataArrayLength", JNum(Len(Get(data, "data").items))>>,
                                   <<"hasDataArray", JBool(TRUE)>> >>))
       ELSE Return(JObj(base))
  ELSE Return(JObj(<<>>))

\* the abbreviated response handleResponse returns for a stored value
Envelope(id, size, summary) ==
  JObj(<< <<"_large_response", JBool(TRUE)>>,
          <<"response_id", JStr(id)>>,
          <<"size_bytes", JNum(size)>>,
          <<"size_mb", JStr(ToFixed2(size))>>,
          <<"summary", summary>>,
          <<"message", JStr("Response too large (" \o ToFixed2(size)
                            \o "MB). Use navigation tools to explore:")>>,
          <<"available_tools", JArr(<<
              JStr("navigate_response - Browse the saved response structure"),
              JStr("query_response - Query specific paths in the response"),
              JStr("filter_response - Filter array results"),
              JStr("export_response - Export full or partial response")>>)>> >>)

\* the entry of the responses map
StoredResponse(id, timestamp, size, summary) ==
  [id |-> id, timestamp |-> timestamp, size |-> size, summary |-> summary]

(***************************************************************************)
(* Paths and filter keys are strings, held as sequences of lexemes: a      *)
(* name, ".", "[", "]", "-" or a run of digits.  "items[2].a" is           *)
(* <<"items", "[", "2", "]", ".", "a">>; the empty path is <<>>.           *)
(***************************************************************************)
MaxIndexLexeme == 12
DigitRuns == {Decimal(n) : n \in 0..MaxIndexLexeme}
NaN == [nan |-> TRUE]
Number(n) == [nan |-> FALSE, n |-> n]

\* the lexemes as one string
RECURSIVE Join(_)
Join(lexemes) == IF lexemes = <<>> THEN "" ELSE Head(lexemes) \o Join(Tail(lexemes))

Includes(lexemes, c) == \E i \in 1..Len(lexemes) : lexemes[i] = c

\* str.split(sep)
RECURSIVE SplitFrom(_, _, _, _)
SplitFrom(lexemes, sep, i, cur) ==
  IF i > Len(lexemes) THEN <<cur>>
  ELSE IF lexemes[i] = sep THEN <<cur>> \o SplitFrom(lexemes, sep, i + 1, <<>>)
  ELSE SplitFrom(lexemes, sep, i + 1, Append(cur, lexemes[i]))

Split(lexemes, sep) == SplitFrom(lexemes, sep, 1, <<>>)

\* str.replace(c, ''): the first occurrence removed
Replace(lexemes, c) ==
  IF ~Includes(lexemes, c) THEN lexemes
  ELSE LET i == CHOOSE j \in 1..Len(lexemes) : lexemes[j] = c /\ \A h \in 1..(j - 1) : lexemes[h] # c
       IN SubSeq(lexemes, 1, i - 1) \o SubSeq(lexemes, i + 1, Len(lexemes))

\* parseInt(str): the leading integer, NaN without one
ParseInt(lexemes) ==
  LET num(l) == CHOOSE n \in 0..MaxIndexLexeme : Decimal(n) = l IN
    IF Len(lexemes) >= 1 /\ lexemes[1] \in DigitRuns THEN Number(num(lexemes[1]))
    ELSE IF Len(lexemes) >= 2 /\ lexemes[1] = "-" /\ lexemes[2] \in DigitRuns
         THEN Number(0 - num(lexemes[2]))
    ELSE NaN

\* `${index}`
IndexToString(index) == IF index.nan THEN "NaN" ELSE NumberToString(index.n)

\* index < 0 || index > length
OutOfBoundsInclusive(index, length) == ~index.nan /\ (index.n < 0 \/ index.n > length)

\* index < 0 || index >= length: false of NaN
OutOfBounds(index, length) == ~index.nan /\ (index.n < 0 \/ index.n >= length)

\* arr[index], after the bounds check
At(arr, index) ==
  IF index.nan \/ index.n < 0 \/ index.n >= Len(arr.items) THEN JSUndefined
  ELSE arr.items[index.n + 1]

\* one segment of navigateResponse's loop: the next current value or the error thrown
NavigateStep(current, part) ==
  IF current.t \in {"null", "undefined"}
  THEN Throw([e |-> "CannotNavigate", part |-> Join(part), parent |-> current.t])
  ELSE IF Includes(part, "[") /\ Includes(part, "]") THEN
    LET pieces == Split(part, "[")
        arrayName == Join(pieces[1])
        index == ParseInt(Replace(pieces[2], "]"))
    IN IF arrayName # "" THEN
         IF current.t \in {"bool", "num", "str"}
         THEN Throw(TypeError("Cannot use 'in' operator"))
         ELSE IF ~In(arrayName, current)
         THEN Throw([e |-> "PropertyNotFoundInCurrent", name |-> arrayName])
         ELSE IF ~IsArray(Get(current, arrayName))
         THEN Throw([e |-> "NotAnArray", name |-> arrayName])
         ELSE IF OutOfBounds(index, Len(Get(current, arrayName).items))
         THEN Throw([e |-> "IndexOutOfBounds", index |-> IndexToString(index),
                     name |-> arrayName, length |-> Len(Get(current, arrayName).items)])
         ELSE Return(At(Get(current, arrayName), index))
       ELSE
         IF ~IsArray(current)
         THEN Throw([e |-> "CurrentNotAnArray", index |-> IndexToString(index)])
         ELSE IF OutOfBounds(index, Len(current.items))
         THEN Throw([e |-> "IndexOutOfBounds", index |-> IndexToString(index),
                     name |-> "", length |-> Len(current.items)])
         ELSE Return(At(current, index))
  ELSE
    IF TypeOf(current) # "object" \/ current.t = "null"
    THEN Throw([e |-> "CannotAccessProperty", part |-> Join(part), type |-> TypeOf(current)])
    ELSE IF ~In(Join(part), current)
    THEN Throw([e |-> "PropertyNotFound", part |-> Join(part),
                available |-> Slice(ObjectKeys(current), 0, 10),
                more |-> Len(ObjectKeys(current)) > 10])
    ELSE Return(Get(current, Join(part)))

\* the loop over the parts, a null or undefined current value ending it quietly
RECURSIVE NavigatePartsOptional(_, _, _)
NavigatePartsOptional(current, parts, i) ==
  IF i > Len(parts) \/ current.t \in {"null", "undefined"} THEN Return(current)
  ELSE LET r == NavigateStep(current, parts[i]) IN
         IF r.ok THEN NavigatePartsOptional(r.v, parts, i + 1) ELSE r

\* the loop over the parts from the i-th on
RECURSIVE NavigateParts(_, _, _)
NavigateParts(current, parts, i) ==
  IF i > Len(parts) THEN Return(current)
  ELSE LET r == NavigateStep(current, parts[i]) IN
         IF r.ok THEN NavigateParts(r.v, parts, i + 1) ELSE r

\* navigateResponse from the parsed data to the value at navigationPath
Navigate(data, navigationPath) ==
  IF navigationPath = <<>> THEN Return(data)
  ELSE NavigateParts(data, Split(navigationPath, "."), 1)

\* JSON.stringify(current).length of navigateResponse and handleResponse:
\* JSON.stringify yields undefined, which has no length, for undefined and functions
Measure(current) ==
  IF current.t \in {"undefined", "function"}
  THEN Throw(TypeError("Cannot read properties of undefined (reading 'length')"))
  ELSE Return(StringLength(Stringify(current)))

(***************************************************************************)
(* queryResponse after its navigation: filter, pagination, result object.  *)
(* A query is [path, filter, limit, offset]: filter a sequence of          *)
(* <<key, value>> (key a lexeme sequence, <<>> for no filter), limit and   *)
(* offset a number or JSUndefined when omitted.                            *)
(***************************************************************************)
\* Date.parse of the date strings the model uses (UTC midnight, in ms; dates
\* of January 1970 keep the numbers small), NaN of any other string
DateParse(str) ==
  CASE str = "1970-01-01" -> Number(0)
    [] str = "1970-01-02" -> Number(24 * ONE_HOUR)
    [] str = "1970-01-03" -> Number(48 * ONE_HOUR)
    [] OTHER -> NaN

\* new Date(v).getTime()
GetTime(v) ==
  CASE v.t = "num" -> Number(v.n)
    [] v.t = "str" -> IF v.pad = 0 THEN DateParse(v.s) ELSE NaN
    [] v.t = "null" -> Number(0)
    [] v.t = "bool" -> Number(IF v.b THEN 1 ELSE 0)
    [] OTHER -> NaN

\* a < b taken as true when either is NaN
LessUnordered(a, b) == a.nan \/ b.nan \/ a.n < b.n

\* a < b on numbers, false when either is NaN
Less(a, b) == ~a.nan /\ ~b.nan /\ a.n < b.n
LessEq(a, b) == ~a.nan /\ ~b.nan /\ a.n <= b.n

IsRange(value) ==
  In("$gte", value) \/ In("$lte", value) \/ In("$gt", value) \/ In("$lt", value)

\* the comparison at the end of the filter callback with every bound exclusive
CompareExclusive(current, value) ==
  IF TypeOf(value) = "object" /\ value.t # "null" /\ IsRange(value)
  THEN LET currentValue == GetTime(current) IN
         /\ ~(In("$gte", value) /\ LessEq(currentValue, GetTime(Get(value, "$gte"))))
         /\ ~(In("$lte", value) /\ LessEq(GetTime(Get(value, "$lte")), currentValue))
         /\ ~(In("$gt", value) /\ LessEq(currentValue, GetTime(Get(value, "$gt"))))
         /\ ~(In("$lt", value) /\ LessEq(GetTime(Get(value, "$lt")), currentValue))
  ELSE StrictEquals(current, value)

\* the comparison at the end of the filter callback, current the resolved field
Compare(current, value) ==
  IF TypeOf(value) = "object" /\ value.t # "null" /\ IsRange(value)
  THEN LET currentValue == GetTime(current) IN
         /\ ~(In("$gte", value) /\ Less(currentValue, GetTime(Get(value, "$gte"))))
         /\ ~(In("$lte", value) /\ Less(GetTime(Get(value, "$lte")), currentValue))
         /\ ~(In("$gt", value) /\ LessEq(currentValue, GetTime(Get(value, "$gt"))))
         /\ ~(In("$lt", value) /\ LessEq(GetTime(Get(value, "$lt")), currentValue))
  ELSE StrictEquals(current, value)

\* the loop over the dotted key from its i-th name on
RECURSIVE FilterKey(_, _, _, _)
FilterKey(current, keys, i, value) ==
  IF i > Len(keys) THEN Compare(current, value)
  ELSE IF ~Falsy(current) /\ TypeOf(current) = "object" /\ In(Join(keys[i]), current)
       THEN FilterKey(Get(current, Join(keys[i])), keys, i + 1, value)
       ELSE FALSE

\* the filter callback: whether item is kept
FilterItem(item, filter) ==
  IF Falsy(item) \/ TypeOf(item) # "object" THEN FALSE
  ELSE \A j \in 1..Len(filter) : FilterKey(item, Split(filter[j][1], "."), 1, filter[j][2])

\* results.filter(...)
RECURSIVE ApplyFilter(_, _)
ApplyFilter(items, filter) ==
  IF items = <<>> THEN <<>>
  ELSE (IF FilterItem(Head(items), filter) THEN <<Head(items)>> ELSE <<>>)
       \o ApplyFilter(Tail(items), filter)

\* x || d for a number argument x
OrDefault(x, d) == IF Falsy(x) THEN d ELSE x.n

\* a slice that takes the element at end as well
JsSliceThroughEnd(seq, start, end) ==
  LET rel(k) == IF k < 0 THEN (IF Len(seq) + k < 0 THEN 0 ELSE Len(seq) + k) ELSE Min(k, Len(seq))
  IN SubSeq(seq, rel(start) + 1, Min(rel(end) + 1, Len(seq)))

\* seq.slice(start, end), negative positions counted from the end
JsSlice(seq, start, end) ==
  LET rel(k) == IF k < 0 THEN (IF Len(seq) + k < 0 THEN 0 ELSE Len(seq) + k) ELSE Min(k, Len(seq))
  IN SubSeq(seq, rel(start) + 1, rel(end))

\* the body of queryResponse's try block with the page cut as slice(offset, limit)
QueryResultLimitAsEnd(nav, query) ==
  IF ~nav.ok THEN nav
  ELSE IF Falsy(nav.v)
  THEN Throw([e |-> "NoDataFound", path |-> IF query.path = <<>> THEN "root" ELSE Join(query.path)])
  ELSE IF IsArray(nav.v) THEN
    LET results == IF Len(query.filter) > 0 THEN ApplyFilter(nav.v.items, query.filter)
                   ELSE nav.v.items
        offset == OrDefault(query.offset, 0)
        limit == OrDefault(query.limit, 20)
        paginatedResults == JsSlice(results, offset, limit)
    IN Return(JObj(<< <<"results", JArr(paginatedResults)>>,
                      <<"total", JNum(Len(results))>>,
                      <<"offset", JNum(offset)>>,
                      <<"limit", JNum(limit)>>,
                      <<"hasMore", JBool(offset + limit < Len(results))>>,
                      <<"message", JStr("Showing " \o Decimal(Len(paginatedResults)) \o " of "
                                        \o Decimal(Len(results)) \o " results")>> >>))
  ELSE Return(JObj(<< <<"data", nav.v>>,
                      <<"type", JStr(TypeOf(nav.v))>>,
                      <<"message", JStr("Data is not an array, returning as-is")>> >>))

\* the body of queryResponse's try block, given the outcome of navigateResponse
QueryResult(nav, query) ==
  IF ~nav.ok THEN nav
  ELSE IF Falsy(nav.v)
  THEN Throw([e |-> "NoDataFound", path |-> IF query.path = <<>> THEN "root" ELSE Join(query.path)])
  ELSE IF IsArray(nav.v) THEN
    LET results == IF Len(query.filter) > 0 THEN ApplyFilter(nav.v.items, query.filter)
                   ELSE nav.v.items
        offset == OrDefault(query.offset, 0)
        limit == OrDefault(query.limit, 20)
        paginatedResults == JsSlice(results, offset, offset + limit)
    IN Return(JObj(<< <<"results", JArr(paginatedResults)>>,
                      <<"total", JNum(Len(results))>>,
                      <<"offset", JNum(offset)>>,
                      <<"limit", JNum(limit)>>,
                      <<"hasMore", JBool(offset + limit < Len(results))>>,
                      <<"message", JStr("Showing " \o Decimal(Len(paginatedResults)) \o " of "
                                        \o Decimal(Len(results)) \o " results")>> >>))
  ELSE Return(JObj(<< <<"data", nav.v>>,
                      <<"type", JStr(TypeOf(nav.v))>>,
                      <<"message", JStr("Data is not an array, returning as-is")>> >>))

\* a catch that rethrows the error it caught
QueryCatchRethrow(r, responseId) == r

\* queryResponse's catch: every failure rethrown under one message
QueryCatch(r, responseId) ==
  IF r.ok THEN r ELSE Throw([e |-> "QueryFailed", id |-> responseId, cause |-> r.err])

(***************************************************************************)
(* exportResponse: the text written.  JSON.stringify(data, null, 2) adds a *)
(* line break and the indentation before every item and a space after      *)
(* every colon; a CSV text is cells separated by "," and line breaks.      *)
(***************************************************************************)
NewLine(indent) == [k |-> "w", n |-> 1 + indent]
Space == [k |-> "w", n |-> 1]
Raw(s) == [k |-> "r", s |-> s]

RECURSIVE StringifyPretty(_, _), PrettyItems(_, _, _), PrettyProps(_, _, _)
StringifyPretty(v, indent) ==
  CASE v.t = "arr" /\ v.items # <<>> ->
         <<Punct("[")>> \o PrettyItems(v.items, 1, indent + 2) \o <<NewLine(indent), Punct("]")>>
    [] v.t = "obj" /\ v.props # <<>> ->
         <<Punct("{")>> \o PrettyProps(v.props, 1, indent + 2) \o <<NewLine(indent), Punct("}")>>
    [] OTHER -> Stringify(v)

PrettyItems(items, i, indent) ==
  IF i > Len(items) THEN <<>>
  ELSE (IF i > 1 THEN <<Punct(",")>> ELSE <<>>) \o <<NewLine(indent)>>
       \o StringifyPretty(items[i], indent) \o PrettyItems(items, i + 1, indent)

PrettyProps(props, i, indent) ==
  IF i > Len(props) THEN <<>>
  ELSE (IF i > 1 THEN <<Punct(",")>> ELSE <<>>)
       \o <<NewLine(indent), StrTok(props[i][1], 0, 1), Punct(":"), Space>>
       \o StringifyPretty(props[i][2], indent) \o PrettyProps(props, i + 1, indent)

\* headers.map(h => JSON.stringify(item[h] || '')).join(',')
RECURSIVE CsvRow(_, _, _)
CsvRow(item, headers, i) ==
  IF i > Len(headers) THEN <<>>
  ELSE (IF i > 1 THEN <<Punct(",")>> ELSE <<>>)
       \o (IF Falsy(Get(item, headers[i])) THEN Stringify(JStr(""))
           ELSE IF Get(item, headers[i]).t = "function" THEN <<>>
           ELSE Stringify(Get(item, headers[i])))
       \o CsvRow(item, headers, i + 1)

RECURSIVE CsvRows(_, _, _)
CsvRows(items, headers, i) ==
  IF i > Len(items) THEN <<>>
  ELSE <<Punct("\n")>> \o CsvRow(items[i], headers, 1) \o CsvRows(items, headers, i + 1)

RECURSIVE CsvHeader(_, _)
CsvHeader(headers, i) ==
  IF i > Len(headers) THEN <<>>
  ELSE (IF i > 1 THEN <<Punct(",")>> ELSE <<>>) \o <<Raw(headers[i])>> \o CsvHeader(headers, i + 1)

\* the text exportResponse writes for the navigated data, or the TypeError of
\* reading a property of a null item
ExportText(data, format) ==
  IF format = "csv" /\ IsArray(data) THEN
    LET headers == IF data.items = <<>> \/ Falsy(data.items[1]) THEN <<>>
                   ELSE ObjectKeys(data.items[1])
    IN IF headers # <<>> /\ \E i \in 1..Len(data.items) : data.items[i].t = "null"
       THEN Throw(TypeError("Cannot read properties of null"))
       ELSE Return(CsvHeader(headers, 1) \o CsvRows(data.items, headers, 1))
  ELSE Return(StringifyPretty(data, 0))

\* the string exportResponse returns
ExportMessage(data, format, outputPath) ==
  IF format = "csv" /\ IsArray(data)
  THEN "Exported " \o Decimal(Len(data.items)) \o " items to " \o outputPath
  ELSE "Exported to " \o outputPath

(***************************************************************************)
(* The state.  A request runs its JavaScript up to the next awaited fs     *)
(* call, is suspended while the file system performs the call, and resumes *)
(* with the call's outcome.  A frame holds one request:                    *)
(*   pc     "idle" | "io" (suspended on frame.io) | "done" (about to hand  *)
(*          frame.ret to the caller)                                       *)
(*   op     the tool called; args its arguments                            *)
(*   k      the await the request is suspended at: "navigate" (readFile of *)
(*          navigateResponse), "offload" (writeFile of handleResponse),    *)
(*          "export" (writeFile of exportResponse)                         *)
(*   stage  which handleResponse is running: "gate" (a tool result),       *)
(*          "nav" (called by navigateResponse), "gate2" (the               *)
(*          navigate_response handler's, on navigateResponse's result)     *)
(*   data, id, size   handleResponse's locals                              *)
(*   current  the value navigateResponse's loop ended at                   *)
(*   io     the pending fs call [fn, path, text, state, err]               *)
(*   nav    the outcome of navigateResponse, once it has one               *)
(***************************************************************************)
VARIABLES
  now,        \* Date.now(), in ms since the process started
  dir,        \* TEMP_DIR: "pending" (mkdir issued), "ready", "failed"
  responses,  \* the responses Map: its entries in insertion order
  disk,       \* path -> [exists, text]
  unlinks,    \* the paths of the fs.unlink calls issued and not yet performed
  issued,     \* the identifiers crypto.randomBytes has yielded so far
  frames      \* slot -> frame

vars == <<now, dir, responses, disk, unlinks, issued, frames>>

TEMP_DIR == "/tmp/mcp-iop-responses"
\* path.join(TEMP_DIR, `${id}.json`)
FilePath(id) == TEMP_DIR \o "/" \o id \o ".json"

\* the identifiers of the model, in the order in which fresh ones are drawn
IdOrder == <<"00000000000000a1", "00000000000000b2", "00000000000000c3">>
Ids == {IdOrder[i] : i \in 1..Len(IdOrder)}
OutputPaths == {"/home/user/out.json"}
Paths == {FilePath(id) : id \in Ids} \union OutputPaths
Slots == {1, 2}

None == [none |-> TRUE]
NoFile == [exists |-> FALSE]
File(text) == [exists |-> TRUE, text |-> text]
IdleFrame == [pc |-> "idle"]

\* Map operations on the entry sequence
Keys(map) == [i \in 1..Len(map) |-> map[i].id]
MapHas(map, id) == \E i \in 1..Len(map) : map[i].id = id
MapGet(map, id) == map[CHOOSE i \in 1..Len(map) : map[i].id = id]
MapSet(map, entry) ==
  IF MapHas(map, entry.id)
  THEN [i \in 1..Len(map) |-> IF map[i].id = entry.id THEN entry ELSE map[i]]
  ELSE Append(map, entry)

\* Array.from(keys).join(', ') || 'none'
RECURSIVE JoinComma(_)
JoinComma(keys) ==
  IF keys = <<>> THEN ""
  ELSE IF Len(keys) = 1 THEN keys[1] ELSE keys[1] \o ", " \o JoinComma(Tail(keys))

\* the list without its || 'none'
AvailableNoDefault(map) == JoinComma(Keys(map))

Available(map) == IF map = <<>> THEN "none" ELSE JoinComma(Keys(map))

\* cleanupOldResponses at time t: the entries kept and the ids deleted
\* the cutoff taken two hours back, and the comparison taken as <=
ExpiredTwoHours(entry, t) == entry.timestamp < t - 2 * ONE_HOUR
ExpiredInclusive(entry, t) == entry.timestamp <= t - ONE_HOUR
\* the cutoff taken at t itself
ExpiredAtOnce(entry, t) == entry.timestamp < t

Expired(entry, t) == entry.timestamp < t - ONE_HOUR
RECURSIVE CleanedUp(_, _)
CleanedUp(map, t) ==
  IF map = <<>> THEN <<>>
  ELSE (IF Expired(Head(map), t) THEN <<>> ELSE <<Head(map)>>) \o CleanedUp(Tail(map), t)
Evicted(map, t) == {map[i].id : i \in {j \in 1..Len(map) : Expired(map[j], t)}}

(***************************************************************************)
(* The JavaScript of a request between two awaits, as the frame it leaves. *)
(* rid is the identifier crypto.randomBytes yields if the run reaches a    *)
(* handleResponse that has to store its value.                             *)
(***************************************************************************)
NewFrame(op, args) ==
  [pc |-> "run", op |-> op, args |-> args, k |-> "", stage |-> "", data |-> None,
   id |-> "", size |-> 0, current |-> None, io |-> None, nav |-> None, ret |-> None]

\* await fs[fn](path, text)
Suspend(f, k, fn, path, text) ==
  [f EXCEPT !.pc = "io", !.k = k,
            !.io = [fn |-> fn, path |-> path, text |-> text, state |-> "pending", err |-> None]]

\* the request's promise settles with outcome
Done(f, outcome) == [f EXCEPT !.pc = "done", !.ret = outcome]

\* the schemas' defaults: limit 20, offset 0, format 'json'
ZodDefault(x, d) == IF x.t = "undefined" THEN d ELSE x

RECURSIVE handleResponse(_, _, _, _), AfterHandle(_, _, _, _), AfterNavigate(_, _, _)
\* handleResponse with the gate off by one: size < MAX_RESPONSE_SIZE
handleResponseStrict(f, data, stage, rid) ==
  LET jsonString == Stringify(data)
      size == StringLength(jsonString)
  IN IF size < MAX_RESPONSE_SIZE
     THEN AfterHandle(f, stage, Return(data), rid)
     ELSE [Suspend(f, "offload", "writeFile", FilePath(rid), jsonString)
             EXCEPT !.stage = stage, !.data = data, !.id = rid, !.size = size]

\* handleResponse(data) up to its return or its writeFile
handleResponse(f, data, stage, rid) ==
  LET jsonString == Stringify(data)
      size == StringLength(jsonString)
  IN IF size <= MAX_RESPONSE_SIZE
     THEN AfterHandle(f, stage, Return(data), rid)
     ELSE [Suspend(f, "offload", "writeFile", FilePath(rid), jsonString)
             EXCEPT !.stage = stage, !.data = data, !.id = rid, !.size = size]

\* what the caller of handleResponse does with its outcome
AfterHandle(f, stage, outcome, rid) ==
  IF stage = "nav" THEN AfterNavigate(f, outcome, rid) ELSE Done(f, outcome)

\* what the caller of navigateResponse does with its outcome nav: the
\* navigate_response handler passes it to handleResponse, queryResponse filters
\* and paginates it, exportResponse writes it
AfterNavigate(f, nav, rid) ==
  LET g == [f EXCEPT !.nav = nav] IN
    CASE f.op = "navigate_response" ->
           IF nav.ok THEN handleResponse(g, nav.v, "gate2", rid) ELSE Done(g, nav)
      [] f.op = "query_response" ->
           Done(g, QueryCatch(QueryResult(nav,
                     [path |-> f.args.path, filter |-> f.args.filter,
                      limit |-> ZodDefault(f.args.limit, JNum(20)),
                      offset |-> ZodDefault(f.args.offset, JNum(0))]), f.args.id))
      [] f.op = "export_response" ->
           IF ~nav.ok THEN Done(g, nav)
           ELSE LET text == ExportText(nav.v, f.args.format) IN
                  IF text.ok
                  THEN Suspend(g, "export", "writeFile", f.args.outputPath, text.v)
                  ELSE Done(g, text)

\* navigateResponse(responseId, navigationPath) up to its readFile
navigateResponse(f, map, rid) ==
  IF ~MapHas(map, f.args.id)
  THEN AfterNavigate(f, Throw([e |-> "NotFound", id |-> f.args.id,
                               available |-> Available(map)]), rid)
  ELSE Suspend(f, "navigate", "readFile", FilePath(f.args.id), <<>>)

\* navigateResponse from its readFile on, returning what it reached whatever its size
ResumeNavigateNoGate(f, rid) ==
  IF f.io.state = "err"
  THEN AfterNavigate(f, Throw(IF f.io.err.code = "ENOENT"
                              THEN [e |-> "FileMissing", id |-> f.args.id]
                              ELSE f.io.err), rid)
  ELSE LET parsed == JsonParse(f.io.text) IN
    IF ~parsed.ok THEN AfterNavigate(f, Throw(SyntaxError), rid)
    ELSE LET current == Navigate(parsed.v, f.args.path) IN
      IF ~current.ok THEN AfterNavigate(f, current, rid)
      ELSE LET result == Measure(current.v)
               g == [f EXCEPT !.current = current.v]
           IN IF ~result.ok THEN AfterNavigate(g, result, rid)
              ELSE AfterNavigate(g, Return(current.v), rid)

\* navigateResponse from the outcome of its readFile on
ResumeNavigate(f, rid) ==
  IF f.io.state = "err"
  THEN AfterNavigate(f, Throw(IF f.io.err.code = "ENOENT"
                              THEN [e |-> "FileMissing", id |-> f.args.id]
                              ELSE f.io.err), rid)
  ELSE LET parsed == JsonParse(f.io.text) IN
    IF ~parsed.ok THEN AfterNavigate(f, Throw(SyntaxError), rid)
    ELSE LET current == Navigate(parsed.v, f.args.path) IN
      IF ~current.ok THEN AfterNavigate(f, current, rid)
      ELSE LET result == Measure(current.v)
               g == [f EXCEPT !.current = current.v]
           IN IF ~result.ok THEN AfterNavigate(g, result, rid)
              ELSE IF result.v > MAX_RESPONSE_SIZE THEN handleResponse(g, current.v, "nav", rid)
              ELSE AfterNavigate(g, Return(current.v), rid)

\* exportResponse from the outcome of its writeFile on
ResumeExport(f) ==
  IF f.io.state = "err" THEN Done(f, Throw(f.io.err))
  ELSE Done(f, Return(JStr(ExportMessage(f.nav.v, f.args.format, f.args.outputPath))))

(***************************************************************************)
(* The inputs: the values the upstream API returns and the arguments of    *)
(* the three navigation tools.                                             *)
(***************************************************************************)
Open == JObj(<< <<"status", JStr("open")>> >>)
Closed == JObj(<< <<"status", JStr("closed")>> >>)
Tickets == JObj(<< <<"items", JArr(<<Open, Closed, Open>>)>>,
                   <<"big", JArr(<<JPad("", 60000, 1), JPad("", 60000, 1)>>)>> >>)
StatusOpen == << <<(<<"status">>), JStr("open")>> >>
\* three long strings, the first of two-byte characters
Chunks == JArr(<<JPad("", 60000, 2), JPad("", 40000, 1), JPad("", 40000, 1)>>)

\* an array whose first item is null
NullFirst == JArr(<<JNull, JPad("", MAX_RESPONSE_SIZE, 1)>>)

\* three numbers and a long string: the envelope holds the numbers only
Series == JArr(<<JNum(1), JNum(2), JNum(3), JPad("", MAX_RESPONSE_SIZE, 1)>>)

\* an input set: what the callers of one specification send
Inputs(fresh, results, paths, queryPaths, filters, limits, offsets, exportPaths, formats) ==
  [fresh |-> fresh, results |-> results, paths |-> paths, queryPaths |-> queryPaths,
   filters |-> filters, limits |-> limits, offsets |-> offsets,
   exportPaths |-> exportPaths, formats |-> formats]

StoreInputs ==
  Inputs(TRUE, { JPad("", MAX_RESPONSE_SIZE - 2, 1), JPad("", 60000, 2), Chunks, NullFirst },
         { <<>>, <<"[", "0", "]">> },
         { <<"[", "0", "]">> }, { <<>> }, { JSUndefined }, { JSUndefined },
         { <<"[", "0", "]">> }, { "json" })

DataInputs ==
  Inputs(TRUE, { Tickets },
         { <<"items">> },
         { <<"items">>, <<"big">> }, { <<>>, StatusOpen },
         { JSUndefined, JNum(1), JNum(2) }, { JSUndefined, JNum(1) },
         { <<"items">>, <<"big">> }, { "json" })

\* a document of twelve properties, stored because of its one long row
Doc ==
  JObj(<< <<"a", JObj(<< <<"b", JNum(42)>> >>)>>,
          <<"e", JObj(<<>>)>>,
          <<"n", JNull>>,
          <<"zero", JNum(0)>>,
          <<"no", JBool(FALSE)>>,
          <<"empty", JStr("")>>,
          <<"items", JArr(<<JNum(10), JNum(20), JNum(30)>>)>>,
          <<"rows", JArr(<<JPad("", 99990, 1)>>)>>,
          <<"k9", JNum(9)>>, <<"k10", JNum(10)>>, <<"k11", JNum(11)>>, <<"k12", JNum(12)>> >>)

PlainPaths ==
  { <<"a">>, <<"a", ".", "b">>, <<"e", ".", "b">>, <<"a", ".", "b", ".", "c">>,
    <<"missing">>, <<"constructor">>, <<"__proto__">>, <<"items", ".", "length">> }
IndexedPaths ==
  { <<"items", "[", "2", "]">>, <<"items", "[", "3", "]">>, <<"items", "[", "5", "]">>,
    <<"items", "[", "-", "1", "]">>, <<"a", "[", "0", "]">>, <<"missing", "[", "0", "]">>,
    <<"[", "0", "]">>, <<"items", ".", "[", "1", "]">>, <<"items", ".", "[", "3", "]">>,
    <<"zero", "[", "0", "]">> }
NullPaths ==
  { <<"n">>, <<"n", ".", "x">>, <<"n", ".", "x", ".", "y">>,
    <<"items", "[", "x", "]", ".", "y">>, <<"missing", ".", "n", ".", "x">> }
ScalarPaths == { <<"zero">>, <<"no">>, <<"empty">>, <<"rows">>, <<"items">> }

PathInputs ==
  Inputs(TRUE, { Doc },
         {<<>>} \union PlainPaths \union IndexedPaths \union NullPaths,
         {<<>>, <<"a">>, <<"a", ".", "b">>, <<"n">>, <<"missing">>, <<"n", ".", "x">>}
           \union ScalarPaths,
         { <<>>, StatusOpen }, { JSUndefined }, { JSUndefined },
         { <<"a">> }, { "json" })

\* a log of three events, a number among them, stored because of its blob
Event(status, createdAt, rest) ==
  JObj(<< <<"status", JStr(status)>>, <<"createdAt", JStr(createdAt)>> >> \o rest)
Events ==
  JArr(<< Event("open", "1970-01-01",
                << <<"n", JNum(0)>>, <<"user", JObj(<< <<"name", JStr("a")>> >>)>> >>),
          Event("closed", "1970-01-02",
                << <<"n", JNum(1)>>, <<"user", JObj(<< <<"name", JStr("b")>> >>)>> >>),
          Event("open", "1970-01-03", << <<"user", JNull>> >>),
          JNum(7) >>)
Log ==
  JObj(<< <<"events", Events>>, <<"none", JArr(<<>>)>>,
          <<"blob", JPad("", MAX_RESPONSE_SIZE, 1)>> >>)

\* filter objects: one key with one value, and a range on createdAt
Where(key, value) == << <<key, value>> >>
Range(op, bound) == Where(<<"createdAt">>, JObj(<< <<op, JStr(bound)>> >>))
EqualityFilters ==
  { StatusOpen,
    StatusOpen \o Where(<<"createdAt">>, JStr("1970-01-03")),
    Where(<<"user", ".", "name">>, JStr("a")),
    Where(<<"nope">>, JStr("x")),
    Where(<<"user">>, JNull),
    Where(<<"user">>, JObj(<< <<"name", JStr("a")>> >>)),
    Where(<<"n">>, JNum(0)) }
RangeFilters ==
  { Range(op, "1970-01-02") : op \in {"$gte", "$lte", "$gt", "$lt"} }
    \union { Where(<<"createdAt">>, JObj(<< <<"$gte", JStr("1970-01-02")>>,
                                           <<"$lt", JStr("1970-01-03")>> >>)),
             Where(<<"createdAt">>, JObj(<< <<"$gt", JStr("1970-01-01")>>,
                                           <<"$lte", JStr("1970-01-03")>> >>)) }
OddFilters ==
  { Range("$gte", "soon"),
    Where(<<"constructor">>, JObj(<< <<"$gte", JStr("1970-01-01")>> >>)),
    Where(<<"status">>, JObj(<< <<"$gte", JStr("1970-01-01")>> >>)) }
\* ranges whose bound is no date, and ranges on a field that holds no date
Ops == {"$gte", "$lte", "$gt", "$lt"}
NaNFilters ==
  { Range(op, "soon") : op \in Ops }
    \union { Where(<<"status">>, JObj(<< <<op, JStr("1970-01-02")>> >>)) : op \in Ops }

FilterInputs ==
  Inputs(TRUE, { Log },
         { <<"events">> },
         { <<"events">> }, EqualityFilters \union RangeFilters \union OddFilters \union NaNFilters,
         { JSUndefined }, { JSUndefined },
         { <<"events">>, <<"none">> }, { "json", "csv" })

(***************************************************************************)
(* The actions.  While a request is handing its result to the caller       *)
(* (pc = "done") nothing else moves, so that a state with a done frame is  *)
(* the state the caller sees at that moment.                               *)
(***************************************************************************)
MaxHours == 1
MaxMillis == 1

Quiet == \A q \in Slots : frames[q].pc # "done"

\* crypto.randomBytes(8).toString('hex'): with fresh, 64 random bits never repeat
\* an identifier already drawn; identifiers are only compared and embedded, all
\* of one length, so the fresh ones are drawn in the order of IdOrder ("" once
\* they are used up, and then no value can be stored).  Without fresh, any
\* identifier may come again.
RandomBytes(fresh) ==
  IF ~fresh THEN Ids
  ELSE IF Ids \subseteq issued THEN {""}
  ELSE {IdOrder[CHOOSE i \in 1..Len(IdOrder) :
                  IdOrder[i] \notin issued /\ \A j \in 1..(i - 1) : IdOrder[j] \in issued]}

\* the identifier a run drew, if it reached the writeFile of handleResponse
Drawn(f) == IF f.pc = "io" /\ f.k = "offload" /\ f.io.state = "pending" THEN {f.id} ELSE {}

\* slot p runs to frame f
Run(p, f) ==
  /\ "" \notin Drawn(f)
  /\ frames' = [frames EXCEPT ![p] = f]
  /\ issued' = issued \union Drawn(f)

Init ==
  /\ now = 0
  /\ dir = "pending"
  /\ responses = <<>>
  /\ disk = [path \in Paths |-> NoFile]
  /\ unlinks = {}
  /\ issued = {}
  /\ frames = [p \in Slots |-> IdleFrame]

\* the constructor's fs.mkdir(TEMP_DIR, {recursive: true}) is performed; a
\* failure is logged and swallowed
FsMkdir ==
  /\ Quiet /\ dir = "pending"
  /\ dir' \in {"ready", "failed"}
  /\ UNCHANGED <<now, responses, disk, unlinks, issued, frames>>

\* time passes
Tick ==
  /\ Quiet
  /\ \E d \in {1, ONE_HOUR} :
       /\ (now + d) \div ONE_HOUR <= MaxHours
       /\ (now + d) % ONE_HOUR <= MaxMillis
       /\ now' = now + d
  /\ UNCHANGED <<dir, responses, disk, unlinks, issued, frames>>

\* a tool returns data: handleResponse(data)
CallTool(p, in) ==
  /\ Quiet /\ frames[p].pc = "idle"
  /\ \E data \in in.results, rid \in RandomBytes(in.fresh) :
       Run(p, handleResponse(NewFrame("callTool", [data |-> data]), data, "gate", rid))
  /\ UNCHANGED <<now, dir, responses, disk, unlinks>>

\* the navigate_response tool
CallNavigate(p, in) ==
  /\ Quiet /\ frames[p].pc = "idle"
  /\ \E id \in Ids, path \in in.paths, rid \in RandomBytes(in.fresh) :
       Run(p, navigateResponse(NewFrame("navigate_response", [id |-> id, path |-> path]),
                               responses, rid))
  /\ UNCHANGED <<now, dir, responses, disk, unlinks>>

\* the query_response tool
CallQuery(p, in) ==
  /\ Quiet /\ frames[p].pc = "idle"
  /\ \E id \in Ids, path \in in.queryPaths, filter \in in.filters,
        limit \in in.limits, offset \in in.offsets, rid \in RandomBytes(in.fresh) :
       Run(p, navigateResponse(NewFrame("query_response",
                 [id |-> id, path |-> path, filter |-> filter,
                  limit |-> limit, offset |-> offset]), responses, rid))
  /\ UNCHANGED <<now, dir, responses, disk, unlinks>>

\* the export_response tool
CallExport(p, in) ==
  /\ Quiet /\ frames[p].pc = "idle"
  /\ \E id \in Ids, path \in in.exportPaths, outputPath \in OutputPaths,
        format \in in.formats, rid \in RandomBytes(in.fresh) :
       Run(p, navigateResponse(NewFrame("export_response",
                 [id |-> id, path |-> path, outputPath |-> outputPath,
                  format |-> format]), responses, rid))
  /\ UNCHANGED <<now, dir, responses, disk, unlinks>>

\* the file system performs a pending readFile
FsReadFile(p) ==
  /\ Quiet /\ frames[p].pc = "io"
  /\ frames[p].io.fn = "readFile" /\ frames[p].io.state = "pending"
  /\ LET io == frames[p].io IN
       Run(p, [frames[p] EXCEPT !.io =
         IF disk[io.path].exists
         THEN [io EXCEPT !.state = "ok", !.text = disk[io.path].text]
         ELSE [io EXCEPT !.state = "err", !.err = FsError("ENOENT", io.path)]])
  /\ UNCHANGED <<now, dir, responses, disk, unlinks>>

\* the file system opens the file of a pending writeFile, truncating it, or
\* refuses to: a file of TEMP_DIR cannot be opened before the directory exists
\* (ENOENT), and any open may be denied (EACCES)
FsWriteOpen(p) ==
  /\ Quiet /\ frames[p].pc = "io"
  /\ frames[p].io.fn = "writeFile" /\ frames[p].io.state = "pending"
  /\ LET io == frames[p].io IN
       IF io.path \notin OutputPaths /\ dir # "ready"
       THEN /\ Run(p, [frames[p] EXCEPT !.io.state = "err",
                                        !.io.err = FsError("ENOENT", io.path)])
            /\ UNCHANGED disk
       ELSE \/ /\ Run(p, [frames[p] EXCEPT !.io.state = "open"])
               /\ disk' = [disk EXCEPT ![io.path] = File(<<>>)]
            \/ /\ Run(p, [frames[p] EXCEPT !.io.state = "err",
                                           !.io.err = FsError("EACCES", io.path)])
               /\ UNCHANGED disk
  /\ UNCHANGED <<now, dir, responses, unlinks>>

\* the file system writes the text and closes the file; a file unlinked in the
\* meantime stays unlinked
FsWriteClose(p) ==
  /\ Quiet /\ frames[p].pc = "io"
  /\ frames[p].io.fn = "writeFile" /\ frames[p].io.state = "open"
  /\ LET io == frames[p].io IN
       /\ Run(p, [frames[p] EXCEPT !.io.state = "ok"])
       /\ disk' = [disk EXCEPT ![io.path] =
                     IF disk[io.path].exists THEN File(io.text) ELSE NoFile]
  /\ UNCHANGED <<now, dir, responses, unlinks>>

\* the file system performs a pending unlink; its failure is swallowed
FsUnlink ==
  /\ Quiet
  /\ \E path \in unlinks :
       /\ unlinks' = unlinks \ {path}
       /\ \/ disk' = [disk EXCEPT ![path] = NoFile]
          \/ UNCHANGED disk
  /\ UNCHANGED <<now, dir, responses, issued, frames>>

\* a party outside the process removes a file of TEMP_DIR
TmpCleaner ==
  /\ Quiet
  /\ \E id \in Ids :
       /\ disk[FilePath(id)].exists
       /\ disk' = [disk EXCEPT ![FilePath(id)] = NoFile]
  /\ UNCHANGED <<now, dir, responses, unlinks, issued, frames>>

\* handleResponse resumes after its writeFile: summary, index entry, cleanup, envelope
ResumeOffload(p, fresh) ==
  /\ Quiet /\ frames[p].pc = "io" /\ frames[p].k = "offload"
  /\ frames[p].io.state \in {"ok", "err"}
  /\ LET f == frames[p]
         summary == createSummary(f.data)
         stored == MapSet(responses, StoredResponse(f.id, now, f.size, summary.v))
     IN \E rid \in RandomBytes(fresh) :
          IF f.io.state = "err"
          THEN /\ Run(p, AfterHandle(f, f.stage, Throw(f.io.err), rid))
               /\ UNCHANGED <<responses, unlinks>>
          ELSE IF ~summary.ok
          THEN /\ Run(p, AfterHandle(f, f.stage, summary, rid))
               /\ UNCHANGED <<responses, unlinks>>
          ELSE /\ responses' = CleanedUp(stored, now)
               /\ unlinks' = unlinks \union {FilePath(id) : id \in Evicted(stored, now)}
               /\ Run(p, AfterHandle(f, f.stage,
                           Return(Envelope(f.id, f.size, summary.v)), rid))
  /\ UNCHANGED <<now, dir, disk>>

\* navigateResponse resumes after its readFile
ResumeRead(p, fresh) ==
  /\ Quiet /\ frames[p].pc = "io" /\ frames[p].k = "navigate"
  /\ frames[p].io.state \in {"ok", "err"}
  /\ \E rid \in RandomBytes(fresh) : Run(p, ResumeNavigate(frames[p], rid))
  /\ UNCHANGED <<now, dir, responses, disk, unlinks>>

\* exportResponse resumes after its writeFile
ResumeWrite(p) ==
  /\ Quiet /\ frames[p].pc = "io" /\ frames[p].k = "export"
  /\ frames[p].io.state \in {"ok", "err"}
  /\ Run(p, ResumeExport(frames[p]))
  /\ UNCHANGED <<now, dir, responses, disk, unlinks>>

\* the caller has the result
Collect(p) ==
  /\ frames[p].pc = "done"
  /\ Run(p, IdleFrame)
  /\ UNCHANGED <<now, dir, responses, disk, unlinks>>

Request(p, in) ==
  \/ CallTool(p, in) \/ CallNavigate(p, in) \/ CallQuery(p, in) \/ CallExport(p, in)
  \/ FsReadFile(p) \/ FsWriteOpen(p) \/ FsWriteClose(p)
  \/ ResumeOffload(p, in.fresh) \/ ResumeRead(p, in.fresh) \/ ResumeWrite(p) \/ Collect(p)

\* The handler with one request at a time, identifiers that never repeat, time
\* passing (a synchronous run of JavaScript takes none), the pending unlinks
\* performed at any moment and files of TEMP_DIR removed from outside.
Next == FsMkdir \/ Tick \/ FsUnlink \/ TmpCleaner \/ Request(1, StoreInputs)

Spec == Init /\ [][Next]_vars

\* Queries and exports of one stored value: one request at a time, no time
\* passing, nothing evicted, no file removed.
NextData == FsMkdir \/ Request(1, DataInputs)

SpecData == Init /\ [][NextData]_vars

\* Navigations and queries along many paths of one stored document: one
\* request at a time, no time passing, files of TEMP_DIR removed from outside.
NextPath == FsMkdir \/ TmpCleaner \/ Request(1, PathInputs)

SpecPath == Init /\ [][NextPath]_vars

\* one log stored, then filtered and exported
NextFilter == FsMkdir \/ Request(1, FilterInputs)
SpecFilter == Init /\ [][NextFilter]_vars

\* Two requests in flight, each an upstream result or a navigation, taking
\* turns at their awaits, while time passes and pending unlinks are performed;
\* identifiers never repeat and nobody else touches TEMP_DIR.
RaceInputs ==
  Inputs(TRUE, { Series },
         { <<>>, <<"[", "0", "]">> },
         {}, {}, {}, {}, {}, {})

RaceRequest(p) ==
  \/ CallTool(p, RaceInputs) \/ CallNavigate(p, RaceInputs)
  \/ FsReadFile(p) \/ FsWriteOpen(p) \/ FsWriteClose(p)
  \/ ResumeOffload(p, TRUE) \/ ResumeRead(p, TRUE) \/ Collect(p)

NextRace == FsMkdir \/ Tick \/ FsUnlink \/ RaceRequest(1) \/ RaceRequest(2)

\* Queries of the three tickets page by page.
PageInputs ==
  Inputs(TRUE, { Tickets },
         { <<"items">> },
         { <<"items">> }, { <<>>, StatusOpen },
         { JNum(1), JNum(2) }, { JSUndefined, JNum(1), JNum(2), JNum(3), JNum(4) },
         { <<"items">> }, { "json" })

NextPages == FsMkdir \/ Request(1, PageInputs)

SpecPages == Init /\ [][NextPages]_vars

SpecRace == Init /\ [][NextRace]_vars

\* Two requests in flight, crypto.randomBytes free to yield any identifier
\* again; no time passes and nobody else touches TEMP_DIR.
ReuseInputs ==
  Inputs(FALSE, { Series },
         { <<"[", "0", "]">> },
         {}, {}, {}, {}, {}, {})

ReuseRequest(p) ==
  \/ CallTool(p, ReuseInputs) \/ CallNavigate(p, ReuseInputs)
  \/ FsReadFile(p) \/ FsWriteOpen(p) \/ FsWriteClose(p)
  \/ ResumeOffload(p, FALSE) \/ ResumeRead(p, FALSE) \/ Collect(p)

NextReuse == FsMkdir \/ ReuseRequest(1) \/ ReuseRequest(2)

SpecReuse == Init /\ [][NextReuse]_vars

(***************************************************************************)
(* The requirements.  A request that has settled is a frame with           *)
(* pc = "done": its arguments, the outcome of its navigateResponse (nav),  *)
(* the value navigateResponse's walk ended at (current) and its result     *)
(* (ret) are read off the frame, and index and disk are those the caller   *)
(* finds at that moment.                                                   *)
(***************************************************************************)
\* the UTF-8 byte length of JSON.stringify(v)
Bytes(v) == ByteLength(Stringify(v))

Finished(p, op) == frames[p].pc = "done" /\ frames[p].op = op
Called(p, op) == frames[p].pc = "idle" /\ frames'[p].pc # "idle" /\ frames'[p].op = op

NavigationTools == {"navigate_response", "query_response", "export_response"}

\* an object carrying the marker flag, and the identifier it carries
IsEnvelope(v) == v.t = "obj" /\ Get(v, "_large_response") = JBool(TRUE)
ResponseId(v) == Get(v, "response_id").s

\* loading id: the index entry, then the file read and parsed
Load(id) ==
  IF MapHas(responses, id) /\ disk[FilePath(id)].exists
  THEN JsonParse(disk[FilePath(id)].text) ELSE ParseFail

\* the step in which a handleResponse that stored its value returns: its
\* entry enters the index
OffloadReturns(p) ==
  /\ frames[p].pc = "io" /\ frames[p].k = "offload" /\ frames[p].io.state = "ok"
  /\ frames'[p] # frames[p]
  /\ MapHas(responses', frames[p].id)

\* the error a navigation tool's failure reports: queryResponse wraps it
Cause(f) == IF f.op = "query_response" THEN f.ret.err.cause ELSE f.ret.err

\* C1: a value whose serialization is at most 100,000 bytes comes back from
\* handleResponse as it is, at once, with no file written, no index entry
\* added and nothing evicted
C1_PassThrough ==
  [][\A p \in Slots :
       (Called(p, "callTool") /\ Bytes(frames'[p].args.data) <= MAX_RESPONSE_SIZE)
       => /\ frames'[p].pc = "done"
          /\ frames'[p].ret = Return(frames'[p].args.data)
          /\ responses' = responses /\ disk' = disk /\ unlinks' = unlinks]_vars

\* a value of exactly 100,000 bytes has been passed through
C1_AtThreshold ==
  \E p \in Slots :
    /\ Finished(p, "callTool")
    /\ Bytes(frames[p].args.data) = MAX_RESPONSE_SIZE
    /\ frames[p].ret = Return(frames[p].args.data)

\* C2: for every value whose serialization exceeds 100,000 bytes
\* handleResponse succeeds with an envelope carrying the marker flag and an
\* identifier that is in the index when the call returns, and loading that
\* identifier yields a value equal to the original
C2_OffloadRoundTrip ==
  \A p \in Slots :
    (Finished(p, "callTool") /\ Bytes(frames[p].args.data) > MAX_RESPONSE_SIZE)
    => /\ frames[p].ret.ok
       /\ IsEnvelope(frames[p].ret.v)
       /\ MapHas(responses, ResponseId(frames[p].ret.v))
       /\ Load(ResponseId(frames[p].ret.v)).ok
       /\ Load(ResponseId(frames[p].ret.v)).v = frames[p].args.data

\* C3: the envelope an offload returns serializes to at most 100,000 bytes
C3_EnvelopeSmall ==
  \A p \in Slots :
    (Finished(p, "callTool") /\ frames[p].id # "" /\ frames[p].ret.ok
       /\ IsEnvelope(frames[p].ret.v))
    => Bytes(frames[p].ret.v) <= MAX_RESPONSE_SIZE

\* C4: when navigateResponse's walk ends at a sub-value of more than 100,000
\* bytes (and no file operation fails), the sub-value is stored under an
\* identifier other than the source's, the new envelope is returned and the
\* source entry is still there; a sub-value of at most 100,000 bytes is
\* returned raw and nothing is stored
C4_ReOffload ==
  \A p \in Slots :
    (Finished(p, "navigate_response") /\ frames[p].current # None
       /\ frames[p].io.state = "ok")
    => LET f == frames[p] IN
         IF Bytes(f.current) > MAX_RESPONSE_SIZE
         THEN /\ f.nav.ok
              /\ IsEnvelope(f.nav.v)
              /\ ResponseId(f.nav.v) # f.args.id
              /\ Load(ResponseId(f.nav.v)).ok
              /\ Load(ResponseId(f.nav.v)).v = f.current
              /\ MapHas(responses, f.args.id)
         ELSE f.nav = Return(f.current) /\ f.id = ""

\* the elements of an array that pass a filter (all of them without one)
Passing(items, filter) == IF filter = <<>> THEN items ELSE ApplyFilter(items, filter)

\* C5: when the path of a query resolves to an array in the stored value
\* (and no file operation fails), whatever the array's size, queryResponse
\* returns an object with results, total, offset, limit and hasMore whose
\* total is the number of the array's elements passing the filter
C5_QueryReachesArray ==
  \A p \in Slots :
    (Finished(p, "query_response") /\ frames[p].current # None
       /\ IsArray(frames[p].current) /\ frames[p].io.state = "ok")
    => LET f == frames[p] IN
         /\ f.ret.ok
         /\ \A k \in {"results", "total", "offset", "limit", "hasMore"} : HasOwn(f.ret.v, k)
         /\ Get(f.ret.v, "total") = JNum(Len(Passing(f.current.items, f.args.filter)))

\* the page of F that starts after offset elements and holds at most limit
Page(F, offset, limit) ==
  LET last == Min(offset + limit, Len(F)) IN
    [i \in 1..(IF last > offset THEN last - offset ELSE 0) |-> F[offset + i]]

\* C6: when navigateResponse hands queryResponse an array, with F its
\* elements passing the filter, limit > 0 (20 when omitted) and offset >= 0
\* (0 when omitted), the result has results = F[offset .. offset+limit),
\* total = |F|, the offset and limit echoed and hasMore = (offset + limit <
\* |F|); three items filtered on status "open" with limit 2 and offset 0
\* give the two open items, total 2, hasMore false
C6_Pagination ==
  \A p \in Slots :
    (Finished(p, "query_response") /\ frames[p].nav.ok /\ IsArray(frames[p].nav.v))
    => LET f == frames[p]
           F == Passing(f.nav.v.items, f.args.filter)
           offset == IF f.args.offset = JSUndefined THEN 0 ELSE f.args.offset.n
           limit == IF f.args.limit = JSUndefined THEN 20 ELSE f.args.limit.n
       IN (limit > 0 /\ offset >= 0)
          => /\ f.ret.ok
             /\ Get(f.ret.v, "results") = JArr(Page(F, offset, limit))
             /\ Get(f.ret.v, "total") = JNum(Len(F))
             /\ Get(f.ret.v, "offset") = JNum(offset)
             /\ Get(f.ret.v, "limit") = JNum(limit)
             /\ Get(f.ret.v, "hasMore") = JBool(offset + limit < Len(F))
             /\ (f.nav.v.items = <<Open, Closed, Open>> /\ f.args.filter = StatusOpen
                   /\ limit = 2 /\ offset = 0)
                => /\ Get(f.ret.v, "results") = JArr(<<Open, Open>>)
                   /\ Get(f.ret.v, "total") = JNum(2)
                   /\ Get(f.ret.v, "hasMore") = JBool(FALSE)

\* the example has been queried, and so has a page that leaves more behind
C6_Example ==
  \E p \in Slots :
    /\ Finished(p, "query_response") /\ frames[p].ret.ok
    /\ frames[p].args.filter = StatusOpen /\ frames[p].args.limit = JNum(2)
    /\ frames[p].args.offset = JSUndefined
    /\ Get(frames[p].ret.v, "results") = JArr(<<Open, Open>>)
    /\ Get(frames[p].ret.v, "hasMore") = JBool(FALSE)

\* C7: when exportResponse completes, the format being JSON or the target
\* not an array, the file at outputPath holds the pretty-printed JSON of
\* the sub-value found at the path in the stored value, and the string
\* returned names outputPath
C7_JsonExport ==
  \A p \in Slots :
    (Finished(p, "export_response") /\ frames[p].ret.ok
       /\ (frames[p].args.format = "json" \/ ~IsArray(frames[p].current)))
    => /\ disk[frames[p].args.outputPath] = File(StringifyPretty(frames[p].current, 0))
       /\ frames[p].ret.v = JStr("Exported to " \o frames[p].args.outputPath)

\* C8: when an offload returns, no entry of the index is more than one hour
\* older than that moment, every entry that was has its file's unlink
\* issued and its identifier out of the index, so that a navigation tool
\* called on an identifier the index lacks fails with not-found at once;
\* and an unlink that is performed, failing or not, touches no request and
\* no entry
C8_EvictionOnOffload ==
  [][/\ \A p \in Slots :
          /\ OffloadReturns(p)
             => /\ \A i \in 1..Len(responses') :
                     responses'[i].timestamp >= now - ONE_HOUR
                /\ \A i \in 1..Len(responses) :
                     responses[i].timestamp < now - ONE_HOUR
                     => /\ ~MapHas(responses', responses[i].id)
                        /\ FilePath(responses[i].id) \in unlinks'
                /\ IF frames[p].stage = "nav" THEN frames'[p].nav.ok
                   ELSE frames'[p].pc = "done" /\ frames'[p].ret.ok
          /\ (Called(p, "navigate_response") /\ ~MapHas(responses, frames'[p].args.id))
             => /\ frames'[p].pc = "done" /\ ~frames'[p].ret.ok
                /\ frames'[p].ret.err.e = "NotFound"
     /\ (unlinks' # unlinks /\ unlinks' \subseteq unlinks)
        => frames' = frames /\ responses' = responses]_vars

\* an offload has just evicted the only older entry and issued its unlink
C8_Evicted ==
  \E p \in Slots :
    /\ Finished(p, "callTool") /\ frames[p].ret.ok /\ IsEnvelope(frames[p].ret.v)
    /\ now > ONE_HOUR
    /\ Len(responses) = 1 /\ responses[1].id = frames[p].id
    /\ \E id \in issued \ {frames[p].id} : FilePath(id) \in unlinks

\* C9: an identifier leaves the index only in the step in which an offload
\* returns, and only if its entry's timestamp is before that moment's
\* one-hour cutoff: no pass-through, no navigation, query or export, and no
\* passage of time removes an entry
C9_OnlyEvictionRemoves ==
  [][\A i \in 1..Len(responses) :
       ~MapHas(responses', responses[i].id)
       => /\ responses[i].timestamp < now - ONE_HOUR
          /\ \E p \in Slots : OffloadReturns(p)]_vars

\* an entry older than one hour has been navigated with success
C9_OldEntryLoaded ==
  \E p \in Slots :
    /\ Finished(p, "navigate_response") /\ frames[p].ret.ok
    /\ MapHas(responses, frames[p].args.id)
    /\ MapGet(responses, frames[p].args.id).timestamp < now - ONE_HOUR

\* C10: a navigation tool called on an identifier with no index entry fails
\* at once with the not-found error that lists the known identifiers, or
\* 'none'; a readFile of a file that is missing fails with ENOENT and the
\* tool then fails with the 'may have been cleaned up' error; in both cases
\* no value is returned, no file written and no entry changed
C10_NotFound ==
  [][\A p \in Slots :
       /\ (\E op \in NavigationTools : Called(p, op) /\ ~MapHas(responses, frames'[p].args.id))
          => /\ frames'[p].pc = "done" /\ ~frames'[p].ret.ok
             /\ Cause(frames'[p]) =
                  [e |-> "NotFound", id |-> frames'[p].args.id,
                   available |-> IF responses = <<>> THEN "none" ELSE JoinComma(Keys(responses))]
             /\ disk' = disk /\ responses' = responses
       /\ (frames[p].pc = "io" /\ frames[p].k = "navigate" /\ frames[p].io.state = "pending"
             /\ frames'[p] # frames[p] /\ ~disk[frames[p].io.path].exists)
          => /\ frames'[p].io.state = "err" /\ frames'[p].io.err.code = "ENOENT"
             /\ disk' = disk /\ responses' = responses
       /\ (frames[p].pc = "io" /\ frames[p].k = "navigate" /\ frames[p].io.state = "err"
             /\ frames[p].io.err.code = "ENOENT" /\ frames'[p] # frames[p])
          => /\ frames'[p].pc = "done" /\ ~frames'[p].ret.ok
             /\ Cause(frames'[p]) = [e |-> "FileMissing", id |-> frames[p].args.id]
             /\ disk' = disk /\ responses' = responses]_vars

\* an identifier in the index whose file is gone has been navigated
C10_FileMissing ==
  \E p \in Slots :
    /\ frames[p].pc = "done" /\ frames[p].op \in NavigationTools
    /\ MapHas(responses, frames[p].args.id)
    /\ ~disk[FilePath(frames[p].args.id)].exists
    /\ ~frames[p].ret.ok /\ Cause(frames[p]).e = "FileMissing"

\* the length of JSON.stringify(v) in UTF-16 code units
Units(v) == StringLength(Stringify(v))

\* C11 as stated: navigating a live identifier with the empty path returns
\* the stored full value unmodified
C11_RootRaw ==
  \A p \in Slots :
    (Finished(p, "navigate_response") /\ frames[p].args.path = <<>>
       /\ frames[p].current # None /\ Load(frames[p].args.id).ok)
    => frames[p].nav = Return(Load(frames[p].args.id).v)

\* C11, amended: navigating with the empty path resolves to the stored full
\* value unmodified, and that value then goes through the size check: a
\* stored value is over 100,000 code units, so what navigateResponse
\* returns, if it succeeds, is the envelope of a fresh offload of the value
\* under another identifier, never the value itself
C11_RootThroughGate ==
  \A p \in Slots :
    (Finished(p, "navigate_response") /\ frames[p].args.path = <<>>
       /\ frames[p].current # None)
    => LET f == frames[p] IN
         /\ Load(f.args.id).ok => f.current = Load(f.args.id).v
         /\ Units(f.current) > MAX_RESPONSE_SIZE
         /\ f.nav.ok
            => /\ IsEnvelope(f.nav.v)
               /\ ResponseId(f.nav.v) # f.args.id
               /\ Get(f.nav.v, "size_bytes") = JNum(Units(f.current))
               /\ Load(ResponseId(f.nav.v)).ok
                  => Load(ResponseId(f.nav.v)).v = f.current

\* the root of a stored document has been navigated and came back as the
\* envelope of a second copy
C11_RootReoffloaded ==
  \E p \in Slots :
    /\ Finished(p, "navigate_response") /\ frames[p].args.path = <<>>
    /\ frames[p].nav.ok /\ IsEnvelope(frames[p].nav.v)
    /\ Load(frames[p].args.id).ok /\ Load(frames[p].args.id).v = Doc
    /\ Load(ResponseId(frames[p].nav.v)).ok
    /\ Load(ResponseId(frames[p].nav.v)).v = Doc

\* the names of a path of plain segments, in order
Names(path) == [i \in 1..((Len(path) + 1) \div 2) |-> path[2 * i - 1]]

\* a walk along names through the properties the JSON objects themselves have
RECURSIVE OwnWalk(_, _)
OwnWalk(v, names) ==
  IF names = <<>> THEN Return(v)
  ELSE IF v.t = "obj" /\ HasOwn(v, Head(names))
       THEN OwnWalk(Get(v, Head(names)), Tail(names))
       ELSE Throw([missing |-> Head(names)])

\* C12: along a path of plain segments, navigation moves to the value of
\* each name the current object has and returns the value reached; at the
\* first name the current value does not have (or when the current value is
\* no object) it fails with an error that names that segment and, for an
\* object, lists at most 10 of its property names
C12_PlainSegment ==
  \A p \in Slots :
    (Finished(p, "navigate_response") /\ frames[p].args.path \in PlainPaths
       /\ Load(frames[p].args.id).ok)
    => LET f == frames[p]
           w == OwnWalk(Load(f.args.id).v, Names(f.args.path))
       IN IF w.ok THEN f.nav = Return(w.v)
          ELSE /\ ~f.nav.ok
               /\ f.nav.err.e \in {"PropertyNotFound", "CannotAccessProperty"}
               /\ f.nav.err.part = w.err.missing
               /\ f.nav.err.e = "PropertyNotFound"
                  => Len(f.nav.err.available) <= 10

\* the name and the index written in an indexed segment
SegName(part) == IF part[1] = "[" THEN "" ELSE part[1]
SegIndex(part) ==
  LET k == IF part[1] = "[" THEN 2 ELSE 3
      val(l) == CHOOSE n \in 0..MaxIndexLexeme : Decimal(n) = l
  IN IF part[k] = "-" THEN 0 - val(part[k + 1]) ELSE val(part[k])

\* C13: a path ending in an indexed segment name[idx], idx an integer,
\* returns element idx of the array property name when 0 <= idx < length,
\* fails with an out-of-bounds error citing idx and the length for every
\* other idx, and fails when name is missing or no array; a bare [idx] does
\* the same on the current value, which must be an array
C13_IndexedSegment ==
  \A p \in Slots :
    (Finished(p, "navigate_response") /\ frames[p].args.path \in IndexedPaths
       /\ Load(frames[p].args.id).ok)
    => LET f == frames[p]
           parts == Split(f.args.path, ".")
           last == parts[Len(parts)]
           base == OwnWalk(Load(f.args.id).v,
                           [i \in 1..(Len(parts) - 1) |-> Join(parts[i])])
           name == SegName(last)
           idx == SegIndex(last)
           has == name = "" \/ (base.v.t = "obj" /\ HasOwn(base.v, name))
           arr == IF name = "" THEN base.v ELSE Get(base.v, name)
       IN /\ base.ok
          /\ IF ~has \/ ~IsArray(arr) THEN ~f.nav.ok
             ELSE IF 0 <= idx /\ idx < Len(arr.items)
             THEN f.nav = Return(arr.items[idx + 1])
             ELSE /\ ~f.nav.ok
                  /\ f.nav.err.e = "IndexOutOfBounds"
                  /\ f.nav.err.index = NumberToString(idx)
                  /\ f.nav.err.length = Len(arr.items)

\* items[5] on the 3-element array has failed citing index 5 and length 3
C13_OutOfBoundsCited ==
  \E p \in Slots :
    /\ Finished(p, "navigate_response")
    /\ frames[p].args.path = <<"items", "[", "5", "]">>
    /\ frames[p].nav = Throw([e |-> "IndexOutOfBounds", index |-> "5",
                              name |-> "items", length |-> 3])

\* a walk along names that stops at the first name it cannot take: at a
\* null current value, or at a name the current object does not have
RECURSIVE NullWalk(_, _)
NullWalk(v, names) ==
  IF names = <<>> THEN Return(v)
  ELSE IF v.t = "null" THEN Throw([at |-> Head(names), null |-> TRUE])
  ELSE IF v.t = "obj" /\ HasOwn(v, Head(names))
       THEN NullWalk(Get(v, Head(names)), Tail(names))
       ELSE Throw([at |-> Head(names), null |-> FALSE])

\* C14: the segments are taken from left to right up to the first failure:
\* when the current value is null or absent and a segment remains,
\* navigation fails with the 'cannot navigate' error naming that segment
\* (and no later one); a failure before that is the one reported; a path
\* whose last segment resolves to null returns null
C14_NullParent ==
  \A p \in Slots :
    (Finished(p, "navigate_response") /\ frames[p].args.path \in NullPaths
       /\ Load(frames[p].args.id).ok)
    => LET f == frames[p]
           w == NullWalk(Load(f.args.id).v, Names(f.args.path))
       IN IF Includes(f.args.path, "[")
          THEN f.nav = Throw([e |-> "CannotNavigate", part |-> "y",
                              parent |-> "undefined"])
          ELSE IF w.ok THEN f.nav = Return(w.v) /\ f.ret = Return(w.v)
          ELSE IF w.err.null
          THEN f.nav = Throw([e |-> "CannotNavigate", part |-> w.err.at,
                              parent |-> "null"])
          ELSE /\ ~f.nav.ok /\ f.nav.err.e = "PropertyNotFound"
               /\ f.nav.err.part = w.err.at

\* 'n.x.y' has failed at x, the first segment after the null
C14_StoppedAtNull ==
  \E p \in Slots :
    /\ Finished(p, "navigate_response")
    /\ frames[p].args.path = <<"n", ".", "x", ".", "y">>
    /\ frames[p].ret = Throw([e |-> "CannotNavigate", part |-> "x",
                              parent |-> "null"])

\* C15: when the value at the path of a query exists and is no array, be it
\* an object or a scalar such as 0, false or the empty string,
\* queryResponse returns it as it is, with its type tag and a message; when
\* no value is at the path, queryResponse fails
C15_NonArrayAsIs ==
  \A p \in Slots :
    (Finished(p, "query_response") /\ Load(frames[p].args.id).ok
       /\ frames[p].args.path
            \in { <<"a">>, <<"a", ".", "b">>, <<"zero">>, <<"no">>, <<"empty">>,
                  <<"missing">> })
    => LET f == frames[p]
           w == OwnWalk(Load(f.args.id).v, Names(f.args.path))
       IN IF w.ok
          THEN /\ f.ret.ok
               /\ f.ret.v.t = "obj"
               /\ HasOwn(f.ret.v, "data") /\ Get(f.ret.v, "data") = w.v
               /\ Get(f.ret.v, "type") = JStr(TypeOf(w.v))
               /\ HasOwn(f.ret.v, "message")
          ELSE ~f.ret.ok

\* whether every key of the filter resolves, through the properties the
\* element and its nested objects have, to a value that passes
Keeps(e, filter) ==
  /\ e.t = "obj"
  /\ \A j \in 1..Len(filter) :
       LET w == OwnWalk(e, Names(filter[j][1])) IN w.ok /\ Compare(w.v, filter[j][2])

\* C16: under a non-empty filter the query keeps exactly the elements that
\* are objects on which every filter key resolves to a value that passes
\* (strict equality unless the filter value is a range), in their order; an
\* element on which a key does not resolve is left out; and the query never
\* fails because of what the filter holds
C16_FilterAnd ==
  \A p \in Slots :
    (Finished(p, "query_response") /\ frames[p].args.filter # <<>>
       /\ frames[p].args.path = <<"events">> /\ Load(frames[p].args.id).ok)
    => /\ frames[p].ret.ok
       /\ Get(frames[p].ret.v, "results")
            = JArr(SelectSeq(Events.items, LAMBDA e : Keeps(e, frames[p].args.filter)))

\* the day of January 1970 a date string of the log names
Day(str) == CASE str = "1970-01-01" -> 1 [] str = "1970-01-02" -> 2 [] str = "1970-01-03" -> 3

\* whether day t is within every bound the range carries
Within(t, range) ==
  /\ HasOwn(range, "$gte") => t >= Day(Get(range, "$gte").s)
  /\ HasOwn(range, "$lte") => t <= Day(Get(range, "$lte").s)
  /\ HasOwn(range, "$gt") => t > Day(Get(range, "$gt").s)
  /\ HasOwn(range, "$lt") => t < Day(Get(range, "$lt").s)

\* C17: under a range filter on createdAt whose bounds parse, the query
\* keeps exactly the elements whose createdAt (a date that parses) is within
\* every bound present, $gte and $lte inclusive, $gt and $lt exclusive
C17_RangeBounds ==
  \A p \in Slots :
    (Finished(p, "query_response") /\ frames[p].args.filter \in RangeFilters
       /\ frames[p].args.path = <<"events">> /\ Load(frames[p].args.id).ok)
    => /\ frames[p].ret.ok
       /\ Get(frames[p].ret.v, "results")
            = JArr(SelectSeq(Events.items,
                     LAMBDA e : /\ e.t = "obj" /\ HasOwn(e, "createdAt")
                                /\ Within(Day(Get(e, "createdAt").s),
                                          frames[p].args.filter[1][2])))

\* {createdAt: {$gte: '1970-01-02'}} has left out the event of the day
\* before and kept the events of that day and of the day after
C17_FromSecondDay ==
  \E p \in Slots :
    /\ Finished(p, "query_response")
    /\ frames[p].args.filter = Range("$gte", "1970-01-02")
    /\ frames[p].ret.ok
    /\ Get(frames[p].ret.v, "results") = JArr(SubSeq(Events.items, 2, 3))

\* a CSV text as the claim has it: the cell of a column an element has is
\* the JSON text of its value, the cell of a column it lacks the JSON text
\* of the empty string
Cell(item, h) ==
  IF item.t = "obj" /\ HasOwn(item, h) THEN Stringify(Get(item, h)) ELSE Stringify(JStr(""))

RECURSIVE Cells(_, _, _)
Cells(item, headers, i) ==
  IF i > Len(headers) THEN <<>>
  ELSE (IF i > 1 THEN <<Punct(",")>> ELSE <<>>) \o Cell(item, headers[i])
       \o Cells(item, headers, i + 1)

RECURSIVE Lines(_, _, _)
Lines(items, headers, i) ==
  IF i > Len(items) THEN <<>>
  ELSE <<Punct("\n")>> \o Cells(items[i], headers, 1) \o Lines(items, headers, i + 1)

RECURSIVE HeaderLine(_, _)
HeaderLine(headers, i) ==
  IF i > Len(headers) THEN <<>>
  ELSE (IF i > 1 THEN <<Punct(",")>> ELSE <<>>) \o <<Raw(headers[i])>>
       \o HeaderLine(headers, i + 1)

\* C18: a CSV export of an array writes the keys of the first element as
\* the header row (nothing for an empty array), then one row per element
\* in order, each cell the JSON text of the element's value for the column
\* (0, false and null as 0, false and null), and returns the message
\* giving the number of elements and the destination
C18_CsvExport ==
  \A p \in Slots :
    (Finished(p, "export_response") /\ frames[p].args.format = "csv"
       /\ frames[p].ret.ok /\ Load(frames[p].args.id).ok)
    => LET f == frames[p]
           items == OwnWalk(Load(f.args.id).v, Names(f.args.path)).v.items
           headers == IF items = <<>> THEN <<>> ELSE ObjectKeys(items[1])
       IN /\ disk[f.args.outputPath]
               = File(HeaderLine(headers, 1) \o Lines(items, headers, 1))
          /\ f.ret = Return(JStr("Exported " \o Decimal(Len(items)) \o " items to "
                                  \o f.args.outputPath))

\* C19: what a query hands its caller has gone through the size check: it
\* is an envelope or its serialization is at most 100,000 bytes
C19_QueryGated ==
  \A p \in Slots :
    (Finished(p, "query_response") /\ frames[p].ret.ok)
    => IsEnvelope(frames[p].ret.v) \/ Bytes(frames[p].ret.v) <= MAX_RESPONSE_SIZE

\* C20: whatever fails inside queryResponse (the identifier is unknown, the
\* file is missing, the path does not resolve, no value is at the path)
\* reaches the caller as the single error 'Failed to query response <id>:
\* <cause>' carrying the identifier and the original error, and a query
\* whose navigation failed returns no result
C20_QueryFailureWrapped ==
  \A p \in Slots :
    Finished(p, "query_response")
    => LET f == frames[p] IN
         /\ ~f.nav.ok => ~f.ret.ok
         /\ ~f.ret.ok
            => /\ f.ret.err.e = "QueryFailed"
               /\ f.ret.err.id = f.args.id
               /\ f.ret.err.cause
                    = IF f.nav.ok
                      THEN [e |-> "NoDataFound",
                            path |-> IF f.args.path = <<>> THEN "root"
                                     ELSE Join(f.args.path)]
                      ELSE f.nav.err

\* a query of an indexed identifier whose file is gone has failed with the
\* wrapped 'file missing' error
C20_FileMissingWrapped ==
  \E p \in Slots :
    /\ Finished(p, "query_response")
    /\ MapHas(responses, frames[p].args.id)
    /\ frames[p].ret = Throw([e |-> "QueryFailed", id |-> frames[p].args.id,
                              cause |-> [e |-> "FileMissing", id |-> frames[p].args.id]])

\* a navigation of identifier id is suspended in slot q
Navigating(q, id) ==
  /\ frames[q].pc = "io" /\ frames[q].op = "navigate_response" /\ frames[q].args.id = id

\* C21: with navigations and offloads taking turns at their awaits, a
\* navigation that has finished has read the whole stored value (and
\* returned what its path reaches, or the envelope of its second copy) or
\* has failed with 'not found' or 'may have been cleaned up' (or with the
\* failed write of its own second copy): it has read no partial file; and
\* no step removes the entry or the file, or issues the unlink, of an entry
\* less than one hour old that a navigation is suspended on
C21_NavigateVsEviction ==
  /\ [](\A p \in Slots :
          Finished(p, "navigate_response")
          => LET f == frames[p] IN
               IF f.nav.ok
               THEN IF f.args.path = <<>>
                    THEN f.current = Series /\ IsEnvelope(f.nav.v)
                         /\ Get(f.nav.v, "size_bytes") = JNum(Units(Series))
                    ELSE f.nav = Return(JNum(1))
               ELSE \/ f.nav.err.e \in {"NotFound", "FileMissing"}
                    \/ /\ f.nav.err.e = "FsError" /\ f.current = Series
                       /\ f.nav.err.path # FilePath(f.args.id))
  /\ [][\A i \in 1..Len(responses) :
          LET id == responses[i].id IN
            (responses[i].timestamp >= now - ONE_HOUR /\ \E q \in Slots : Navigating(q, id))
            => /\ MapHas(responses', id)
               /\ disk'[FilePath(id)] = disk[FilePath(id)]
               /\ FilePath(id) \notin unlinks']_vars

\* a navigation has failed with 'may have been cleaned up' on an entry that
\* an offload evicted, and whose file was unlinked, while it was suspended
C21_LostTheRace ==
  \E p \in Slots :
    /\ Finished(p, "navigate_response")
    /\ frames[p].nav = Throw([e |-> "FileMissing", id |-> frames[p].args.id])
    /\ ~MapHas(responses, frames[p].args.id)
    /\ frames[p].args.id \in issued

\* an offload is suspended in slot p on the writeFile of its value
Offloading(p) == frames[p].pc = "io" /\ frames[p].k = "offload"

\* C22: the identifier of an offload in flight is that of no entry of the
\* index and of no other offload in flight
C22_NoCollision ==
  \A p \in Slots :
    Offloading(p)
    => /\ ~MapHas(responses, frames[p].id)
       /\ \A q \in Slots \ {p} : Offloading(q) => frames[q].id # frames[p].id

\* C23: the size recorded in an index entry is the number of bytes of the
\* serialized value in the entry's file, and the size_bytes of the envelope
\* an offload returns is the size of its entry
C23_RecordedSize ==
  /\ \A i \in 1..Len(responses) :
       disk[FilePath(responses[i].id)].exists
       => responses[i].size = ByteLength(disk[FilePath(responses[i].id)].text)
  /\ \A p \in Slots :
       (Finished(p, "callTool") /\ frames[p].ret.ok /\ IsEnvelope(frames[p].ret.v)
          /\ MapHas(responses, ResponseId(frames[p].ret.v)))
       => Get(frames[p].ret.v, "size_bytes")
            = JNum(MapGet(responses, ResponseId(frames[p].ret.v)).size)

\* the first n elements of a sequence, all of them if it has fewer
Prefix(seq, n) == SubSeq(seq, 1, Min(n, Len(seq)))

\* C24: createSummary yields a summary for every value it is given: for
\* an array, structure 'array', totalItems its length, firstItems its
\* first three items, and itemKeys (at most 10 keys of the first item)
\* exactly when the first item is an object; for an object, structure
\* 'object', at most 20 of its keys, and hasDataArray and dataArrayLength
\* exactly when its property data is an array; for any other value the
\* empty summary
C24_SummaryTotal ==
  \A p \in Slots :
    Offloading(p)
    => LET data == frames[p].data
           r == createSummary(data)
       IN /\ r.ok
          /\ r.v.t = "obj"
          /\ IF data.t = "arr"
             THEN /\ Get(r.v, "structure") = JStr("array")
                  /\ Get(r.v, "totalItems") = JNum(Len(data.items))
                  /\ Get(r.v, "firstItems") = JArr(Prefix(data.items, 3))
                  /\ HasOwn(r.v, "itemKeys")
                       <=> (Len(data.items) > 0 /\ data.items[1].t = "obj")
                  /\ HasOwn(r.v, "itemKeys")
                     => Get(r.v, "itemKeys")
                          = JArr([i \in 1..Min(10, Len(ObjectKeys(data.items[1]))) |->
                                    JStr(ObjectKeys(data.items[1])[i])])
             ELSE IF data.t = "obj"
             THEN /\ Get(r.v, "structure") = JStr("object")
                  /\ Get(r.v, "keys")
                       = JArr([i \in 1..Min(20, Len(ObjectKeys(data))) |->
                                 JStr(ObjectKeys(data)[i])])
                  /\ HasOwn(r.v, "hasDataArray")
                       <=> (HasOwn(data, "data") /\ IsArray(Get(data, "data")))
                  /\ HasOwn(r.v, "dataArrayLength") <=> HasOwn(r.v, "hasDataArray")
             ELSE r.v = JObj(<<>>)

\* C26: when handleResponse fails on a value it had to store, neither an
\* index entry nor a file under the identifier it drew is left
C26_FailedOffloadClean ==
  \A p \in Slots :
    (Finished(p, "callTool") /\ frames[p].id # "" /\ ~frames[p].ret.ok)
    => /\ ~MapHas(responses, frames[p].id)
       /\ ~disk[FilePath(frames[p].id)].exists

\* C27: whenever an offload is at the writeFile of its value the temp
\* directory has been created, and no offload fails because the directory
\* is not there
C27_DirReady ==
  \A p \in Slots :
    /\ Offloading(p) => dir = "ready"
    /\ (Finished(p, "callTool") /\ ~frames[p].ret.ok /\ frames[p].ret.err.e = "FsError")
       => frames[p].ret.err.code # "ENOENT"

\* C25: every identifier of the index has a file that is completely
\* written (it parses, and is as long as the size of the entry), and a
\* navigation of an indexed identifier that has finished has not read a
\* partially written file
C25_IndexedFileComplete ==
  /\ \A i \in 1..Len(responses) :
       LET file == disk[FilePath(responses[i].id)] IN
         /\ file.exists
         /\ JsonParse(file.text).ok
         /\ StringLength(file.text) = responses[i].size
  /\ \A p \in Slots :
       (Finished(p, "navigate_response") /\ ~frames[p].nav.ok)
       => frames[p].nav.err.e # "SyntaxError"

\* C28: every entry of the index records a size over 100,000 and its file,
\* while there, holds a value of more than 100,000 characters; and the
\* index changes only in the step in which an offload returns, gaining
\* that offload's entry and losing the entries then expired
C28_OnlyOversizedStored ==
  [][/\ \A i \in 1..Len(responses') :
          /\ responses'[i].size > MAX_RESPONSE_SIZE
          /\ disk'[FilePath(responses'[i].id)].exists
             => StringLength(disk'[FilePath(responses'[i].id)].text) > MAX_RESPONSE_SIZE
     /\ IF \E p \in Slots : OffloadReturns(p)
        THEN Len(responses')
               = Len(responses) + 1
                   - Cardinality({i \in 1..Len(responses) :
                                    responses[i].timestamp < now - ONE_HOUR})
        ELSE responses' = responses]_vars

\* the results of the pages from the k-th to the n-th, one after the other
RECURSIVE Pages(_, _, _)
Pages(page, k, n) ==
  IF k > n THEN <<>> ELSE Get(page[k], "results").items \o Pages(page, k + 1, n)

\* C29: for an array, a filter and a limit L > 0, the pages at offsets 0,
\* L, 2L, ... put one after the other are the filtered list, each page has
\* at most L elements and the same total, and hasMore is true on a page
\* exactly when the next page is not empty; the query that has finished,
\* its offset a multiple of L, has returned its page of these
C29_PagesPartition ==
  \A p \in Slots :
    (Finished(p, "query_response") /\ frames[p].nav.ok /\ IsArray(frames[p].nav.v)
       /\ frames[p].args.limit # JSUndefined /\ frames[p].args.limit.n > 0)
    => LET f == frames[p]
           F == Passing(f.nav.v.items, f.args.filter)
           L == f.args.limit.n
           offset == IF f.args.offset = JSUndefined THEN 0 ELSE f.args.offset.n
           n == Len(F) \div L + 1
           page == [k \in 0..(n + 1) |->
                      QueryResult(f.nav, [path |-> f.args.path, filter |-> f.args.filter,
                                          limit |-> JNum(L), offset |-> JNum(k * L)]).v]
       IN /\ Pages(page, 0, n) = F
          /\ \A k \in 0..n :
               /\ Len(Get(page[k], "results").items) <= L
               /\ Get(page[k], "total") = JNum(Len(F))
               /\ Get(page[k], "hasMore") = JBool(Get(page[k + 1], "results").items # <<>>)
          /\ (offset % L = 0 /\ offset \div L <= n) => f.ret = Return(page[offset \div L])

\* the second page of the three tickets taken two at a time has come back:
\* the one ticket left, nothing more behind
C29_LastPage ==
  \E p \in Slots :
    /\ Finished(p, "query_response") /\ frames[p].ret.ok
    /\ frames[p].args.filter = <<>>
    /\ frames[p].args.limit = JNum(2) /\ frames[p].args.offset = JNum(2)
    /\ Get(frames[p].ret.v, "results") = JArr(<<Open>>)
    /\ Get(frames[p].ret.v, "total") = JNum(3)
    /\ Get(frames[p].ret.v, "hasMore") = JBool(FALSE)

\* C30: a range whose bound does not parse to a timestamp leaves out no
\* element that has the field, and an element whose field does not parse
\* is kept by a range of any of the four kinds: the result is the elements
\* that are objects having the field, whatever the run
C30_UnparsablePass ==
  \A p \in Slots :
    (Finished(p, "query_response") /\ frames[p].args.filter \in NaNFilters
       /\ frames[p].args.path = <<"events">> /\ Load(frames[p].args.id).ok)
    => /\ frames[p].ret.ok
       /\ Get(frames[p].ret.v, "results")
            = JArr(SelectSeq(Events.items,
                     LAMBDA e : e.t = "obj"
                                /\ HasOwn(e, Join(frames[p].args.filter[1][1]))))
       /\ Get(frames[p].ret.v, "total") = JNum(3)

\* the range {status: {$lte: '1970-01-02'}}, on a field that holds no
\* date, has kept the three events
C30_KeptAll ==
  \E p \in Slots :
    /\ Finished(p, "query_response") /\ frames[p].ret.ok
    /\ frames[p].args.filter = Where(<<"status">>, JObj(<< <<"$lte", JStr("1970-01-02")>> >>))
    /\ Get(frames[p].ret.v, "results") = JArr(SubSeq(Events.items, 1, 3))
====
